---- MODULE Spec2Model ----
(***************************************************************************)
(* Model of the financial ETL pipeline: ETLPipeline (etl_pipeline.py) and  *)
(* the Glue job script (glue_etl_job.py).                                  *)
(*                                                                         *)
(* A column name is a tuple of one-character strings, so that lower() and  *)
(* replace() act on it character by character.  A cell value is a tuple    *)
(* <<kind, y, m, d>>: null, a string holding the text "y-m-d" (not         *)
(* necessarily a calendar date), or a typed date.  Integers produced by    *)
(* year()/month() are <<"int", n, 0, 0>>.                                  *)
(***************************************************************************)
EXTENDS Integers, Sequences, FiniteSets, TLC

\* ------------------------------------------------------------------ bounds
MaxRows == 2
MaxClock == 4
TicksPerSecond == 2
SecondsPerDay == 2
MaxRecords == 3

\* ------------------------------------------------------ strings (str type)
UpperAlpha == <<"A","B","C","D","E","F","G","H","I","J","K","L","M",
                "N","O","P","Q","R","S","T","U","V","W","X","Y","Z">>
LowerAlpha == <<"a","b","c","d","e","f","g","h","i","j","k","l","m",
                "n","o","p","q","r","s","t","u","v","w","x","y","z">>

\* the lowercase letter of every uppercase letter
LowerOf ==
  [u \in {UpperAlpha[i] : i \in 1..Len(UpperAlpha)} |->
     LowerAlpha[CHOOSE i \in 1..Len(UpperAlpha) : UpperAlpha[i] = u]]

\* str.lower() on one character
LowerChar(c) == IF c \in DOMAIN LowerOf THEN LowerOf[c] ELSE c

\* str.lower()
lower(s) == [i \in 1..Len(s) |-> LowerChar(s[i])]

\* str.replace(old, new) for a one-character old and new
replace(s, old, new) == [i \in 1..Len(s) |-> IF s[i] = old THEN new ELSE s[i]]

\* the Python test `sub in s`
Contains(s, sub) ==
  \E i \in 0..(Len(s) - Len(sub)) :
     \A j \in 1..Len(sub) : s[i + j] = sub[j]

\* a normalization that leaves hyphens in place
NormalizeName_hyphens_kept(c) == replace(lower(c), " ", "_")

\* c.lower().replace(' ', '_').replace('-', '_')
NormalizeName(c) == replace(replace(lower(c), " ", "_"), "-", "_")

\* name.endswith(suffix)
endswith(s, suffix) ==
  /\ Len(s) >= Len(suffix)
  /\ SubSeq(s, Len(s) - Len(suffix) + 1, Len(s)) = suffix

\* a name that is not there: None, or the empty string
Unset == ""

\* the literals the code looks for
sDate == <<"d","a","t","e">>
sAmount == <<"a","m","o","u","n","t">>
sValue == <<"v","a","l","u","e">>
sProcessedDate == <<"p","r","o","c","e","s","s","e","d","_","d","a","t","e">>
sYear == <<"y","e","a","r">>
sMonth == <<"m","o","n","t","h">>

\* ------------------------------------------------------------ cell values
Null == <<"null", 0, 0, 0>>
Str(y, m, d) == <<"str", y, m, d>>
Date(y, m, d) == <<"date", y, m, d>>
IntVal(n) == <<"int", n, 0, 0>>

IsNull(v) == v[1] = "null"

IsLeap(y) == (y % 4 = 0 /\ y % 100 # 0) \/ y % 400 = 0

DaysInMonth(y, m) ==
  IF m = 2 THEN (IF IsLeap(y) THEN 29 ELSE 28)
  ELSE IF m \in {4, 6, 9, 11} THEN 30 ELSE 31

ValidDate(y, m, d) == m \in 1..12 /\ d \in 1..DaysInMonth(y, m)

\* to_date(col, "yyyy-MM-dd") on one value: text that is not a calendar date
\* gives null, a date stays a date
to_date(v) ==
  IF v[1] = "date" THEN v
  ELSE IF v[1] = "str" /\ ValidDate(v[2], v[3], v[4]) THEN Date(v[2], v[3], v[4])
  ELSE Null

\* the implicit cast of a date to string made by when(..., <string>).otherwise(<date>)
CastString(v) == IF v[1] = "date" THEN Str(v[2], v[3], v[4]) ELSE v

\* year(col) and month(col) on one value (a string is cast to a date first)
year(v) == IF IsNull(to_date(v)) THEN Null ELSE IntVal(to_date(v)[2])
month(v) == IF IsNull(to_date(v)) THEN Null ELSE IntVal(to_date(v)[3])

\* --------------------------------------------------------------- DataFrame
\* df.columns is df.cols; every row is a tuple aligned with it
DataFrame(cols, rows) == [cols |-> cols, rows |-> rows]

\* positions of the columns named c (Spark resolves names ignoring case)
Positions(df, c) == {i \in 1..Len(df.cols) : lower(df.cols[i]) = lower(c)}

\* col(c) resolves iff exactly one column bears the name
Resolves(df, c) == Cardinality(Positions(df, c)) = 1
Pos(df, c) == CHOOSE i \in Positions(df, c) : TRUE

HasDuplicateColumns(cols) ==
  \E i, j \in 1..Len(cols) : i # j /\ cols[i] = cols[j]

\* df.withColumn(c, f(row)): replaces the column(s) named c, else appends one
withColumn(df, c, f(_)) ==
  LET ps == Positions(df, c)
  IN  IF ps # {}
      THEN DataFrame(df.cols,
             [r \in 1..Len(df.rows) |->
                [i \in 1..Len(df.cols) |->
                   IF i \in ps THEN f(df.rows[r]) ELSE df.rows[r][i]]])
      ELSE DataFrame(Append(df.cols, c),
             [r \in 1..Len(df.rows) |-> Append(df.rows[r], f(df.rows[r]))])

\* df.withColumnRenamed(existing, new): renames every column named existing
withColumnRenamed(df, existing, new) ==
  LET ps == Positions(df, existing)
  IN  DataFrame([i \in 1..Len(df.cols) |-> IF i \in ps THEN new ELSE df.cols[i]],
                df.rows)

\* df.filter(pred) keeps the rows satisfying pred, in order
FilterRows(rows, keep(_)) == SelectSeq(rows, keep)

\* [c for c in df.columns if pred(c)]
SelectNames(cols, pred(_)) == SelectSeq(cols, pred)

IsDateName(c) == Contains(lower(c), sDate)
IsAmountName(c) == Contains(lower(c), sAmount) \/ Contains(lower(c), sValue)

date_columns(df) == SelectNames(df.cols, IsDateName)
amount_columns(df) == SelectNames(df.cols, IsAmountName)

\* ------------------------------------------------------------------- clock
\* the calendar day after <<y, m, d>>
NextDay(t) ==
  IF t[3] < DaysInMonth(t[1], t[2]) THEN <<t[1], t[2], t[3] + 1>>
  ELSE IF t[2] < 12 THEN <<t[1], t[2] + 1, 1>>
  ELSE <<t[1] + 1, 1, 1>>

\* day 0 of the model's clock
Epoch == <<2026, 12, 31>>

RECURSIVE DayToDate(_)
DayToDate(n) == IF n = 0 THEN Epoch ELSE NextDay(DayToDate(n - 1))

\* a timestamp that keeps the fraction of the second
strftime_subsecond(now) == now

\* datetime.now().strftime("%Y%m%d_%H%M%S"): the clock truncated to the second
strftime_timestamp(now) == now \div TicksPerSecond

\* datetime.now().strftime("%Y-%m-%d"): the clock truncated to the day
strftime_date(now) ==
  LET t == DayToDate((now \div TicksPerSecond) \div SecondsPerDay)
  IN  Str(t[1], t[2], t[3])

\* --------------------------------------------------------------- transform
\* A transform in progress: ok is FALSE once a statement has raised; df is
\* the frame; dcols and acols are the locals date_columns and amount_columns.
Frame(ok, df, dcols, acols) == [ok |-> ok, df |-> df, dcols |-> dcols, acols |-> acols]

Raise(t) == Frame(FALSE, t.df, t.dcols, t.acols)

\* df.select([col(c).alias(c.lower().replace(' ', '_').replace('-', '_'))
\*            for c in df.columns])
\* (col(c) raises when more than one column bears the name c)
select_alias(t) ==
  IF \E i \in 1..Len(t.df.cols) : ~Resolves(t.df, t.df.cols[i]) THEN Raise(t)
  ELSE Frame(TRUE,
             DataFrame([i \in 1..Len(t.df.cols) |-> NormalizeName(t.df.cols[i])],
                       t.df.rows),
             t.dcols, t.acols)

\* for col_name in df.columns: rename when the normalized name differs
RECURSIVE rename_loop(_, _)
rename_loop(df, columns) ==
  IF columns = <<>> THEN df
  ELSE LET col_name == Head(columns)
           new_col_name == NormalizeName(col_name)
       IN  IF new_col_name # col_name
           THEN rename_loop(withColumnRenamed(df, col_name, new_col_name),
                            Tail(columns))
           ELSE rename_loop(df, Tail(columns))

glue_rename(t) == Frame(TRUE, rename_loop(t.df, t.df.cols), t.dcols, t.acols)

\* a date conversion that rejects the rows holding text that is no date
convert_dates_rejecting(t) ==
  LET dcols == date_columns(t.df)
      isDate == [i \in 1..Len(t.df.cols) |-> IsDateName(t.df.cols[i])]
      keep(row) == \A i \in 1..Len(t.df.cols) :
                      isDate[i] => (IsNull(row[i]) \/ ~IsNull(to_date(row[i])))
  IN  Frame(TRUE, DataFrame(t.df.cols, FilterRows(t.df.rows, keep)), dcols, t.acols)

\* date_columns = [...]; for date_col in date_columns:
\*     df = df.withColumn(date_col, to_date(col(date_col), "yyyy-MM-dd"))
convert_dates(t) ==
  LET dcols == date_columns(t.df)
      isDate == [i \in 1..Len(t.df.cols) |-> IsDateName(t.df.cols[i])]
  IN  IF \E i \in 1..Len(dcols) : ~Resolves(t.df, dcols[i])
      THEN Frame(FALSE, t.df, dcols, t.acols)
      ELSE Frame(TRUE,
             DataFrame(t.df.cols,
               [r \in 1..Len(t.df.rows) |->
                  [i \in 1..Len(t.df.cols) |->
                     IF isDate[i] THEN to_date(t.df.rows[r][i])
                     ELSE t.df.rows[r][i]]]),
             dcols, t.acols)

\* df.withColumn("processed_date",
\*    when(col("processed_date").isNull(), <today>).otherwise(col("processed_date")))
etl_processed_date(t, today) ==
  IF ~Resolves(t.df, sProcessedDate) THEN Raise(t)
  ELSE LET p == Pos(t.df, sProcessedDate)
           f(row) == IF IsNull(row[p]) THEN today ELSE CastString(row[p])
       IN  Frame(TRUE, withColumn(t.df, sProcessedDate, f), t.dcols, t.acols)

\* df.withColumn('processed_date', F.lit(<today>))
glue_processed_date(t, today) ==
  LET f(row) == today
  IN  Frame(TRUE, withColumn(t.df, sProcessedDate, f), t.dcols, t.acols)

\* amount_columns = [...]
\* if amount_columns: if date_columns: df.withColumn("year", ...).withColumn("month", ...)
partition_columns(t) ==
  LET acols == amount_columns(t.df)
  IN  IF acols = <<>> \/ t.dcols = <<>> THEN Frame(TRUE, t.df, t.dcols, acols)
      ELSE IF ~Resolves(t.df, t.dcols[1]) THEN Frame(FALSE, t.df, t.dcols, acols)
      ELSE LET p == Pos(t.df, t.dcols[1])
               fy(row) == year(row[p])
               withYear == withColumn(t.df, sYear, fy)
               q == Pos(withYear, t.dcols[1])
               fm(row) == month(row[q])
           IN  Frame(TRUE, withColumn(withYear, sMonth, fm), t.dcols, acols)

\* if amount_columns: df = df.filter(col(amount_columns[0]).isNotNull())
quality_filter(t) ==
  IF t.acols = <<>> THEN t
  ELSE IF ~Resolves(t.df, t.acols[1]) THEN Raise(t)
  ELSE LET p == Pos(t.df, t.acols[1])
           keep(row) == ~IsNull(row[p])
       IN  Frame(TRUE, DataFrame(t.df.cols, FilterRows(t.df.rows, keep)),
                 t.dcols, t.acols)

\* the orders in which the rows of a set can come out
Orderings(S) ==
  {s \in [1..Cardinality(S) -> S] : \A x \in S : \E i \in DOMAIN s : s[i] = x}

RowSet(rows) == {rows[i] : i \in 1..Len(rows)}

\* a deduplication that keeps every row
dropDuplicates_none(rows) == {rows}

\* df.dropDuplicates(): one row per distinct row; the engine fixes no order
dropDuplicates(rows) == Orderings(RowSet(rows))

\* ETLPipeline.transform (129-155), up to dropDuplicates: a statement that
\* raises ends it
transform_df(df, today) ==
  LET t1 == select_alias(Frame(TRUE, df, <<>>, <<>>))
      t2 == convert_dates(t1)
      t3 == etl_processed_date(t2, today)
      t4 == partition_columns(t3)
  IN  IF ~t1.ok THEN t1
      ELSE IF ~t2.ok THEN t2
      ELSE IF ~t3.ok THEN t3
      ELSE IF ~t4.ok THEN t4
      ELSE quality_filter(t4)

\* the Glue script's transform (57-82), up to dropDuplicates
glue_transform_df(df, today) ==
  LET t1 == glue_rename(Frame(TRUE, df, <<>>, <<>>))
      t2 == convert_dates(t1)
      t3 == glue_processed_date(t2, today)
      t4 == partition_columns(t3)
  IN  IF ~t1.ok THEN t1
      ELSE IF ~t2.ok THEN t2
      ELSE IF ~t3.ok THEN t3
      ELSE IF ~t4.ok THEN t4
      ELSE quality_filter(t4)

\* ------------------------------------------------------------ object store
\* an output path without the date= partition
s3_output_path_undated(bucket, prefix, now) ==
  [scheme |-> "s3a", bucket |-> bucket, prefix |-> prefix,
   timestamp |-> 0, trailing |-> ""]

\* f"s3a://{self.destination_bucket}/{output_prefix}/date={timestamp}"
s3_output_path(bucket, prefix, now) ==
  [scheme |-> "s3a", bucket |-> bucket, prefix |-> prefix,
   timestamp |-> strftime_timestamp(now), trailing |-> ""]

\* an output path that ignores the configured prefix
glue_output_path_fixed_prefix(bucket, prefix, now) ==
  [scheme |-> "s3", bucket |-> bucket, prefix |-> "processed_data",
   timestamp |-> strftime_timestamp(now), trailing |-> "/"]

\* f"s3://{destination_bucket}/{output_prefix}/date={timestamp}/"
glue_output_path(bucket, prefix, now) ==
  [scheme |-> "s3", bucket |-> bucket, prefix |-> prefix,
   timestamp |-> strftime_timestamp(now), trailing |-> "/"]

NoPath == [scheme |-> "", bucket |-> "", prefix |-> "", timestamp |-> -1, trailing |-> ""]

\* the place in the object store a path names: bucket and key prefix
Location(path) == <<path.bucket, path.prefix, path.timestamp>>

Absent == [exists |-> FALSE, cols |-> <<>>, rows |-> <<>>]
Contents(df) == [exists |-> TRUE, cols |-> df.cols, rows |-> df.rows]

\* a write in append mode: the rows already there stay
write_append(old, df) ==
  IF old.exists THEN [exists |-> TRUE, cols |-> df.cols, rows |-> old.rows \o df.rows]
  ELSE Contents(df)

\* df.write.mode("overwrite").parquet(path): what the location holds afterwards
write_overwrite(old, df) == Contents(df)

\* what a write that raised can leave behind: no cleanup is attempted
FailedWriteOutcomes(old) == {old, Absent}

\* ------------------------------------------------------------------ inputs
\* headers of extracted sources (test_etl.py writes 'Transaction ID', 'Date',
\* 'Amount', 'Currency'); no two names of one source are equal ignoring case
hDate == <<"D","a","t","e">>
hAmount == <<"A","m","o","u","n","t">>
hValueDate == <<"V","a","l","u","e","-","D","a","t","e">>
hTxnID == <<"T","x","n"," ","I","D">>
htxn_id == <<"t","x","n","_","i","d">>

Headers ==
  { <<hDate, hAmount>>,
    <<hDate, hAmount, sProcessedDate>>,
    <<hValueDate, sProcessedDate>>,
    <<hTxnID, htxn_id, sProcessedDate>>,
    <<sProcessedDate, hAmount>>,
    <<hTxnID, sProcessedDate>>,
    <<hTxnID, htxn_id>>,
    <<hAmount>> }

\* cell values of an extracted source: null, the text of a calendar date, and
\* text that is no calendar date
Values == {Null, Str(2024, 3, 15), Str(2024, 13, 40)}

Tables(n) == UNION {[1..k -> [1..n -> Values]] : k \in 0..MaxRows}

\* the extracted sources with header h
Sources(h) == {DataFrame(h, rows) : rows \in Tables(Len(h))}

NoFrame == Frame(FALSE, DataFrame(<<>>, <<>>), <<>>, <<>>)

\* ------------------------------------------------------------------- state
VARIABLES
  t_impl,        \* which implementation transforms: "etl" or "glue"
  t_stage,       \* the statement the transform has reached
  t_source,      \* the extracted DataFrame
  t_norm,        \* the frame after the column names were normalized
  t_enr,         \* the frame after enrichment, before the quality filter
  t_cur,         \* the current frame
  clock,         \* wall clock, in ticks
  kind,          \* per run: "etl" (ETLPipeline.run) or "glue" (the job script)
  output_prefix, \* per run: the configured output prefix
  pc,            \* per run: the state of the run
  spark,         \* per run: self.spark
  run_df,        \* per run: the DataFrame in hand (df, df_transformed)
  started,       \* per run: the clock when the run began
  load_now,      \* per run: the datetime.now() behind the path's timestamp
  output_path,   \* per run: the output path
  result,        \* per run: what the caller got
  calls,         \* per run: the stages called so far, in order
  store,         \* the destination object store, by location
  records,       \* lambda_handler: event['Records']
  env,           \* lambda_handler: the environment variables
  l_pc,          \* lambda_handler: where the handler is
  l_i,           \* lambda_handler: the index of the record the loop is at
  results,       \* lambda_handler: the list results
  attempts,      \* the start_job_run calls made: the index of each one's record
  response       \* lambda_handler: what it returned

tvars == <<t_impl, t_stage, t_source, t_norm, t_enr, t_cur>>
rvars == <<kind, output_prefix, pc, spark, run_df, started, load_now, output_path,
           result, calls, store>>
lvars == <<records, env, l_pc, l_i, results, attempts, response>>
vars == <<t_impl, t_stage, t_source, t_norm, t_enr, t_cur, clock,
          kind, output_prefix, pc, spark, run_df, started, load_now, output_path,
          result, calls, store,
          records, env, l_pc, l_i, results, attempts, response>>

\* a statement that raises ends the transform at that statement
Advance(t, next, raised) == IF t.ok THEN next ELSE raised

\* ---------------------------------------------- the transform, by statement
\* the normalization of the implementation in hand
normalize(t) == IF t_impl = "etl" THEN select_alias(t) ELSE glue_rename(t)

TStart ==
  /\ t_impl \in {"etl", "glue"}
  /\ \E h \in Headers : t_source \in Sources(h)
  /\ t_stage = "extracted"
  /\ t_norm = NoFrame
  /\ t_enr = NoFrame
  /\ t_cur = Frame(TRUE, t_source, <<>>, <<>>)

\* etl_pipeline.py 130-132, glue_etl_job.py 59-62
TNormalize ==
  /\ t_stage = "extracted"
  /\ LET t == normalize(t_cur)
     IN  /\ t_cur' = t
         /\ t_norm' = t
         /\ t_stage' = Advance(t, "normalized", "failed_normalize")
  /\ UNCHANGED <<t_impl, t_source, t_enr, clock, rvars, lvars>>

\* etl_pipeline.py 136-138, glue_etl_job.py 65-67
TConvertDates ==
  /\ t_stage = "normalized"
  /\ t_cur' = convert_dates(t_cur)
  /\ t_stage' = Advance(t_cur', "dated", "failed_convert_dates")
  /\ UNCHANGED <<t_impl, t_source, t_norm, t_enr, clock, rvars, lvars>>

\* etl_pipeline.py 141-143, glue_etl_job.py 70
TProcessedDate ==
  /\ t_stage = "dated"
  /\ t_cur' = IF t_impl = "etl"
              THEN etl_processed_date(t_cur, strftime_date(clock))
              ELSE glue_processed_date(t_cur, strftime_date(clock))
  /\ t_stage' = Advance(t_cur', "stamped", "failed_processed_date")
  /\ UNCHANGED <<t_impl, t_source, t_norm, t_enr, clock, rvars, lvars>>

\* etl_pipeline.py 146-152, glue_etl_job.py 73-79
TPartitionColumns ==
  /\ t_stage = "stamped"
  /\ t_cur' = partition_columns(t_cur)
  /\ t_enr' = t_cur'
  /\ t_stage' = Advance(t_cur', "enriched", "failed_partition_columns")
  /\ UNCHANGED <<t_impl, t_source, t_norm, clock, rvars, lvars>>

\* etl_pipeline.py 155, glue_etl_job.py 82
TQualityFilter ==
  /\ t_stage = "enriched"
  /\ t_cur' = quality_filter(t_cur)
  /\ t_stage' = Advance(t_cur', "filtered", "failed_quality_filter")
  /\ UNCHANGED <<t_impl, t_source, t_norm, t_enr, clock, rvars, lvars>>

\* etl_pipeline.py 158, glue_etl_job.py 85
TDropDuplicates ==
  /\ t_stage = "filtered"
  /\ \E rows \in dropDuplicates(t_cur.df.rows) :
       t_cur' = Frame(TRUE, DataFrame(t_cur.df.cols, rows), t_cur.dcols, t_cur.acols)
  /\ t_stage' = "transformed"
  /\ UNCHANGED <<t_impl, t_source, t_norm, t_enr, clock, rvars, lvars>>

TNext ==
  \/ TNormalize
  \/ TConvertDates
  \/ TProcessedDate
  \/ TPartitionColumns
  \/ TQualityFilter
  \/ TDropDuplicates

\* the transform variables while no transform is being stepped through
TIdle ==
  /\ t_impl = "etl"
  /\ t_stage = "idle"
  /\ t_source = DataFrame(<<>>, <<>>)
  /\ t_norm = NoFrame
  /\ t_enr = NoFrame
  /\ t_cur = NoFrame

\* nothing returned yet
NoResponse == [statusCode |-> 0, body |-> [message |-> ""]]

\* the handler's variables while no event is being handled
LIdle ==
  /\ records = <<>>
  /\ env = [GLUE_JOB_NAME |-> Unset, DESTINATION_BUCKET |-> Unset]
  /\ l_pc = "idle"
  /\ l_i = 0
  /\ results = <<>>
  /\ attempts = <<>>
  /\ response = NoResponse

\* -------------------------------------------------------------------- runs
\* two independent runs, each its own process
Runs == {1, 2}

\* os.getenv('DESTINATION_BUCKET', 'etl-pipeline-output')
DestinationBucket == "etl-pipeline-output"

\* OUTPUT_PREFIX as configured: not set, or set to a prefix
PrefixArgs == {Unset, "archive"}

\* os.getenv('OUTPUT_PREFIX', 'processed_data'); run(output_prefix="processed_data")
default_output_prefix(arg) == IF arg = Unset THEN "processed_data" ELSE arg

\* the output prefixes a run can have
Prefixes == {default_output_prefix(arg) : arg \in PrefixArgs}

Locations ==
  {<<DestinationBucket, p, ts>> : p \in Prefixes, ts \in 0..strftime_timestamp(MaxClock)}

hTradeDate == <<"T","r","a","d","e","-","D","a","t","e">>
htrade_date == <<"t","r","a","d","e","_","d","a","t","e">>

\* the sources a run can be given
RunSources ==
  { DataFrame(<<hDate, hAmount, sProcessedDate>>,
              << <<Str(2024, 3, 15), Str(2024, 13, 40), Null>> >>),
    DataFrame(<<hValueDate, sProcessedDate>>,
              << <<Str(2024, 3, 15), Str(2024, 3, 15)>> >>),
    DataFrame(<<hTradeDate, htrade_date>>,
              << <<Str(2024, 3, 15), Null>> >>) }

NoData == DataFrame(<<>>, <<>>)

\* an exception as the engine or the client library raises it
Exception(type, message) == [type |-> type, message |-> message]
NoException == Exception("", "")

SessionError == Exception("Py4JJavaError", "cannot start the Spark session")
ClientError == Exception("BotoCoreError", "cannot create the S3 client")
ReadError == Exception("AnalysisException", "Path does not exist")
ResolveError == Exception("AnalysisException", "cannot resolve column")
WriteError == Exception("Py4JJavaError", "write failed")

Pending == [status |-> "pending", output_path |-> NoPath, exception |-> NoException]

\* a run that returns no output path
returned_nothing(path) == [status |-> "returned", output_path |-> NoPath, exception |-> NoException]

\* return output_path
returned(path) == [status |-> "returned", output_path |-> path, exception |-> NoException]

\* an except block that logs and does not raise: run() returns None
swallow(e) == [status |-> "returned", output_path |-> NoPath, exception |-> NoException]

\* except Exception as e: logger.error(...); raise
reraise(e) == [status |-> "raised", output_path |-> NoPath, exception |-> e]

\* job.commit() at the end of the script: nothing is returned
committed == [status |-> "committed", output_path |-> NoPath, exception |-> NoException]

\* a run without the finally block
finally_absent(session) == session

\* finally: if self.spark: self.spark.stop()
finally_stop(session) == IF session = "active" THEN "stopped" ELSE session

Init ==
  /\ TIdle
  /\ LIdle
  /\ clock = 0
  /\ kind \in [Runs -> {"etl", "glue"}]
  /\ output_prefix \in [Runs -> Prefixes]
  /\ pc = [r \in Runs |-> "Created"]
  /\ spark = [r \in Runs |-> "None"]
  /\ run_df = [r \in Runs |-> NoData]
  /\ started = [r \in Runs |-> -1]
  /\ load_now = [r \in Runs |-> -1]
  /\ output_path = [r \in Runs |-> NoPath]
  /\ result = [r \in Runs |-> Pending]
  /\ calls = [r \in Runs |-> <<>>]
  /\ store = [l \in Locations |-> Absent]

\* a run that starts over when a stage raises
FailAndRetry(r, session, e) ==
  /\ pc' = [pc EXCEPT ![r] = "Created"]
  /\ spark' = [spark EXCEPT ![r] = finally_stop(session)]
  /\ result' = [result EXCEPT ![r] = reraise(e)]

\* a stage of ETLPipeline.run raised: except (230-232), finally (233-236)
Fail(r, session, e) ==
  /\ pc' = [pc EXCEPT ![r] = "Failed"]
  /\ spark' = [spark EXCEPT ![r] = finally_stop(session)]
  /\ result' = [result EXCEPT ![r] = reraise(e)]

\* run() up to and including self.initialize_spark()
initialize_spark(r) ==
  /\ kind[r] = "etl"
  /\ pc[r] = "Created"
  /\ started' = [started EXCEPT ![r] = clock]
  /\ calls' = [calls EXCEPT ![r] = Append(@, "initialize_spark")]
  /\ \/ /\ spark' = [spark EXCEPT ![r] = "active"]
        /\ pc' = [pc EXCEPT ![r] = "Extracting"]
        /\ UNCHANGED result
     \/ Fail(r, spark[r], SessionError)    \* getOrCreate() raised
     \/ Fail(r, "active", ClientError)     \* boto3.client raised
  /\ UNCHANGED <<lvars, tvars, clock, kind, output_prefix, run_df, load_now, output_path, store>>

\* df = self.extract()
extract(r) ==
  /\ kind[r] = "etl"
  /\ pc[r] = "Extracting"
  /\ calls' = [calls EXCEPT ![r] = Append(@, "extract")]
  /\ \/ /\ \E src \in RunSources : run_df' = [run_df EXCEPT ![r] = src]
        /\ pc' = [pc EXCEPT ![r] = "Transforming"]
        /\ UNCHANGED <<spark, result>>
     \/ /\ Fail(r, spark[r], ReadError)
        /\ UNCHANGED run_df
  /\ UNCHANGED <<lvars, tvars, clock, kind, output_prefix, started, load_now, output_path, store>>

\* df_transformed = self.transform(df)
transform(r) ==
  /\ kind[r] = "etl"
  /\ pc[r] = "Transforming"
  /\ calls' = [calls EXCEPT ![r] = Append(@, "transform")]
  /\ LET t == transform_df(run_df[r], strftime_date(clock))
     IN  IF t.ok
         THEN /\ \E rows \in dropDuplicates(t.df.rows) :
                   run_df' = [run_df EXCEPT ![r] = DataFrame(t.df.cols, rows)]
              /\ pc' = [pc EXCEPT ![r] = "Loading"]
              /\ UNCHANGED <<spark, result>>
         ELSE /\ Fail(r, spark[r], ResolveError)
              /\ UNCHANGED run_df
  /\ UNCHANGED <<lvars, tvars, clock, kind, output_prefix, started, load_now, output_path, store>>

\* output_path = self.load(df_transformed, output_prefix); return output_path
load(r) ==
  /\ kind[r] = "etl"
  /\ pc[r] = "Loading"
  /\ calls' = [calls EXCEPT ![r] = Append(@, "load")]
  /\ load_now' = [load_now EXCEPT ![r] = clock]
  /\ LET path == s3_output_path(DestinationBucket, output_prefix[r], clock)
     IN  /\ output_path' = [output_path EXCEPT ![r] = path]
         /\ \/ /\ store' = [store EXCEPT ![Location(path)] = write_overwrite(@, run_df[r])]
               /\ pc' = [pc EXCEPT ![r] = "Completed"]
               /\ spark' = [spark EXCEPT ![r] = finally_stop(spark[r])]
               /\ result' = [result EXCEPT ![r] = returned(path)]
            \/ /\ \E left \in FailedWriteOutcomes(store[Location(path)]) :
                    store' = [store EXCEPT ![Location(path)] = left]
               /\ Fail(r, spark[r], WriteError)
  /\ UNCHANGED <<lvars, tvars, clock, kind, output_prefix, run_df, started>>

\* the script dies with the exception; it stops no session
GlueFail(r, e) ==
  /\ pc' = [pc EXCEPT ![r] = "Failed"]
  /\ result' = [result EXCEPT ![r] = reraise(e)]

\* glue_etl_job.py 17-43: arguments, the Glue-provided context, the paths
glue_init(r) ==
  /\ kind[r] = "glue"
  /\ pc[r] = "Created"
  /\ started' = [started EXCEPT ![r] = clock]
  /\ calls' = [calls EXCEPT ![r] = Append(@, "initialize_spark")]
  /\ \/ /\ spark' = [spark EXCEPT ![r] = "provided"]
        /\ load_now' = [load_now EXCEPT ![r] = clock]
        /\ output_path' = [output_path EXCEPT ![r] =
                             glue_output_path(DestinationBucket, output_prefix[r], clock)]
        /\ pc' = [pc EXCEPT ![r] = "Extracting"]
        /\ UNCHANGED result
     \/ /\ GlueFail(r, SessionError)
        /\ UNCHANGED <<spark, load_now, output_path>>
  /\ UNCHANGED <<lvars, tvars, clock, kind, output_prefix, run_df, store>>

\* glue_etl_job.py 45-55
glue_read(r) ==
  /\ kind[r] = "glue"
  /\ pc[r] = "Extracting"
  /\ calls' = [calls EXCEPT ![r] = Append(@, "extract")]
  /\ \/ /\ \E src \in RunSources : run_df' = [run_df EXCEPT ![r] = src]
        /\ pc' = [pc EXCEPT ![r] = "Transforming"]
        /\ UNCHANGED result
     \/ /\ GlueFail(r, ReadError)
        /\ UNCHANGED run_df
  /\ UNCHANGED <<lvars, tvars, clock, kind, output_prefix, spark, started, load_now,
                 output_path, store>>

\* glue_etl_job.py 57-87
glue_transform(r) ==
  /\ kind[r] = "glue"
  /\ pc[r] = "Transforming"
  /\ calls' = [calls EXCEPT ![r] = Append(@, "transform")]
  /\ LET t == glue_transform_df(run_df[r], strftime_date(clock))
     IN  IF t.ok
         THEN /\ \E rows \in dropDuplicates(t.df.rows) :
                   run_df' = [run_df EXCEPT ![r] = DataFrame(t.df.cols, rows)]
              /\ pc' = [pc EXCEPT ![r] = "Loading"]
              /\ UNCHANGED result
         ELSE /\ GlueFail(r, ResolveError)
              /\ UNCHANGED run_df
  /\ UNCHANGED <<lvars, tvars, clock, kind, output_prefix, spark, started, load_now,
                 output_path, store>>

\* glue_etl_job.py 89-94
glue_write(r) ==
  /\ kind[r] = "glue"
  /\ pc[r] = "Loading"
  /\ calls' = [calls EXCEPT ![r] = Append(@, "load")]
  /\ LET loc == Location(output_path[r])
     IN  \/ /\ store' = [store EXCEPT ![loc] = write_overwrite(@, run_df[r])]
            /\ pc' = [pc EXCEPT ![r] = "Completed"]
            /\ result' = [result EXCEPT ![r] = committed]
         \/ /\ \E left \in FailedWriteOutcomes(store[loc]) :
                 store' = [store EXCEPT ![loc] = left]
            /\ GlueFail(r, WriteError)
  /\ UNCHANGED <<lvars, tvars, clock, kind, output_prefix, spark, run_df, started, load_now,
                 output_path>>

\* the wall clock advances
Tick ==
  /\ clock < MaxClock
  /\ clock' = clock + 1
  /\ UNCHANGED <<lvars, tvars, rvars>>

Next ==
  \/ \E r \in Runs : initialize_spark(r)
  \/ \E r \in Runs : extract(r)
  \/ \E r \in Runs : transform(r)
  \/ \E r \in Runs : load(r)
  \/ \E r \in Runs : glue_init(r)
  \/ \E r \in Runs : glue_read(r)
  \/ \E r \in Runs : glue_transform(r)
  \/ \E r \in Runs : glue_write(r)
  \/ Tick

Spec == Init /\ [][Next]_vars

\* the run variables while a transform is stepped through on its own
RIdle ==
  /\ kind = [r \in Runs |-> "etl"]
  /\ output_prefix = [r \in Runs |-> "processed_data"]
  /\ pc = [r \in Runs |-> "Created"]
  /\ spark = [r \in Runs |-> "None"]
  /\ run_df = [r \in Runs |-> NoData]
  /\ started = [r \in Runs |-> -1]
  /\ load_now = [r \in Runs |-> -1]
  /\ output_path = [r \in Runs |-> NoPath]
  /\ result = [r \in Runs |-> Pending]
  /\ calls = [r \in Runs |-> <<>>]
  /\ store = [l \in Locations |-> Absent]

InitT ==
  /\ TStart
  /\ RIdle
  /\ LIdle
  /\ clock = 0

SpecT == InitT /\ [][TNext]_vars

\* ----------------------------------------------------------- lambda_handler
sCsv == <<".","c","s","v">>
sJson == <<".","j","s","o","n">>

\* object keys of upload events
kCsv == <<"a",".","c","s","v">>
kCSV == <<"A",".","C","S","V">>
kJson == <<"b",".","j","s","o","n">>
kTxt == <<"a",".","t","x","t">>
kNoDot == <<"c","s","v">>

\* one entry of event['Records']; a bucket name or key that is missing is Unset
Record(eventSource, bucket, key) ==
  [eventSource |-> eventSource, bucket |-> bucket, key |-> key]

EventRecords ==
  { Record("aws:s3", "source-bucket", kCsv),
    Record("aws:s3", "source-bucket", kCSV),
    Record("aws:s3", "source-bucket", kJson),
    Record("aws:s3", "source-bucket", kTxt),
    Record("aws:s3", "source-bucket", kNoDot),
    Record("aws:sqs", "source-bucket", kCsv),
    Record("aws:s3", Unset, kCsv),
    Record("aws:s3", "source-bucket", <<>>) }

\* the values event.get('Records', []) can have
Events(n) == [1..n -> EventRecords]

\* os.getenv('GLUE_JOB_NAME'), os.getenv('DESTINATION_BUCKET')
Environments ==
  [GLUE_JOB_NAME : {Unset, "financial-etl-job"},
   DESTINATION_BUCKET : {Unset, "etl-pipeline-output"}]

\* f"s3://{bucket_name}/{object_key}"
source_uri(bucket_name, object_key) == <<"s3", bucket_name, object_key>>

\* a check that lets only CSV files through
is_supported_csv_only(object_key) == endswith(lower(object_key), sCsv)

\* object_key.lower().endswith('.csv') or object_key.lower().endswith('.json')
is_supported(object_key) ==
  endswith(lower(object_key), sCsv) \/ endswith(lower(object_key), sJson)

\* the entry appended after start_job_run returned
triggered_result(source, glue_job_name, job_run_id) ==
  [source |-> source, glue_job_name |-> glue_job_name,
   job_run_id |-> job_run_id, status |-> "triggered"]

\* an error entry without the error
error_result_bare(source, e) == [source |-> source, status |-> "error"]

\* the entry appended after start_job_run raised
error_result(source, e) ==
  [source |-> source, status |-> "error", error |-> e.message]

GlueClientError == Exception("InvalidRegionError", "cannot create the Glue client")
StartJobRunError == Exception("ConcurrentRunsExceededException", "start_job_run failed")

\* return {'statusCode': ..., 'body': json.dumps(...)}
Response(statusCode, body) == [statusCode |-> statusCode, body |-> body]

LStartState ==
  /\ \E n \in 0..MaxRecords : records \in Events(n)
  /\ env \in Environments
  /\ l_pc = "start"
  /\ l_i = 0
  /\ results = <<>>
  /\ attempts = <<>>
  /\ response = NoResponse

\* lambda_handler 28-64: the checks before the loop, and the Glue client
LStart ==
  /\ l_pc = "start"
  /\ IF records = <<>>
     THEN /\ response' = Response(400, [message |-> "No records in event"])
          /\ l_pc' = "returned"
          /\ UNCHANGED l_i
     ELSE IF env.GLUE_JOB_NAME = Unset
     THEN /\ response' = Response(500, [message |-> "GLUE_JOB_NAME not configured"])
          /\ l_pc' = "returned"
          /\ UNCHANGED l_i
     ELSE IF env.DESTINATION_BUCKET = Unset
     THEN /\ response' = Response(500, [message |-> "DESTINATION_BUCKET not configured"])
          /\ l_pc' = "returned"
          /\ UNCHANGED l_i
     ELSE \/ /\ l_pc' = "loop"                \* boto3.client returned
             /\ l_i' = 1
             /\ UNCHANGED response
          \/ /\ l_pc' = "returned"            \* boto3.client raised (126-133)
             /\ response' = Response(500, [error |-> GlueClientError.message])
             /\ UNCHANGED l_i
  /\ UNCHANGED <<records, env, results, attempts, tvars, clock, rvars>>

\* lambda_handler 65-116: one iteration of `for record in records`
LRecord ==
  /\ l_pc = "loop"
  /\ l_i <= Len(records)
  /\ LET record == records[l_i]
         bucket_name == record.bucket
         object_key == record.key
         source == source_uri(bucket_name, object_key)
     IN  IF record.eventSource # "aws:s3" THEN UNCHANGED <<results, attempts>>
         ELSE IF bucket_name = Unset \/ object_key = <<>>
         THEN UNCHANGED <<results, attempts>>
         ELSE IF ~is_supported(object_key) THEN UNCHANGED <<results, attempts>>
         ELSE /\ attempts' = Append(attempts, l_i)
              /\ \/ results' = Append(results,
                                  triggered_result(source, env.GLUE_JOB_NAME,
                                                   Len(attempts) + 1))
                 \/ results' = Append(results, error_result(source, StartJobRunError))
  /\ l_i' = l_i + 1
  /\ UNCHANGED <<records, env, l_pc, response, tvars, clock, rvars>>

\* lambda_handler 118-124
LReturn ==
  /\ l_pc = "loop"
  /\ l_i > Len(records)
  /\ response' = Response(200, [message |-> "Glue jobs triggered successfully",
                                results |-> results])
  /\ l_pc' = "returned"
  /\ UNCHANGED <<records, env, l_i, results, attempts, tvars, clock, rvars>>

LNext ==
  \/ LStart
  \/ LRecord
  \/ LReturn

InitL ==
  /\ LStartState
  /\ TIdle
  /\ RIdle
  /\ clock = 0

SpecL == InitL /\ [][LNext]_vars

\* ------------------------------------------------------ claims on the runs
Pipeline == <<"initialize_spark", "extract", "transform", "load">>

NonTerminal == {"Created", "Extracting", "Transforming", "Loading"}

Transitions ==
  { <<"Created", "Extracting">>, <<"Extracting", "Transforming">>,
    <<"Transforming", "Loading">>, <<"Loading", "Completed">> }
  \cup {<<st, "Failed">> : st \in NonTerminal}

IsPrefix(s, t) == Len(s) <= Len(t) /\ s = SubSeq(t, 1, Len(s))

\* the second in which a clock reading falls
SecondOf(now) == now \div TicksPerSecond

\* C1: every step of a run moves it along Created -> Extracting ->
\* Transforming -> Loading -> Completed or into Failed from a non-terminal
\* state; the stages called are a prefix of the pipeline (each at most once,
\* in order), and Completed and Failed are never left.
C1_RunTransitions ==
  [][\A r \in Runs :
       /\ pc'[r] # pc[r] => <<pc[r], pc'[r]>> \in Transitions
       /\ IsPrefix(calls'[r], Pipeline)
       /\ pc'[r] = "Completed" => calls'[r] = Pipeline
       /\ pc'[r] = "Extracting" => calls'[r] = SubSeq(Pipeline, 1, 1)
       /\ pc'[r] = "Transforming" => calls'[r] = SubSeq(Pipeline, 1, 2)
       /\ pc'[r] = "Loading" => calls'[r] = SubSeq(Pipeline, 1, 3)]_vars

\* C1 witness: one run went through every stage, another failed in transform
C1_Witness ==
  \E r1, r2 \in Runs :
    /\ pc[r1] = "Completed" /\ calls[r1] = Pipeline
    /\ pc[r2] = "Failed" /\ calls[r2] = SubSeq(Pipeline, 1, 3)
    /\ kind[r1] = "etl" /\ kind[r2] = "etl"

\* C2: a run that has ended, in success or in failure, holds no open session.
C2_SessionReleased ==
  \A r \in Runs : pc[r] \in {"Completed", "Failed"} => spark[r] # "active"

\* C2 witness: a session was opened and released on a failure path and on the
\* success path
C2_Witness ==
  \E r1, r2 \in Runs :
    /\ pc[r1] = "Failed" /\ spark[r1] = "stopped" /\ calls[r1] = Pipeline
    /\ pc[r2] = "Completed" /\ spark[r2] = "stopped"

\* what C3 says of a run besides the shape of the failure: a failure is
\* raised to the caller, no stage is retried or run after it, and an output
\* location is returned only after extract, transform and load succeeded
C3_Surfaced(r) ==
  /\ IsPrefix(calls[r], Pipeline)
  /\ pc[r] \in NonTerminal => result[r] = Pending
  /\ pc[r] = "Failed" => result[r].status = "raised"
  /\ pc[r] = "Completed" => result[r].status = "returned"
  /\ result[r].status = "returned" =>
       /\ pc[r] = "Completed"
       /\ calls[r] = Pipeline
       /\ result[r].output_path = output_path[r]
       /\ output_path[r] # NoPath

\* the exceptions a stage can raise
RaisedBy(stage) ==
  IF stage = "initialize_spark" THEN {SessionError, ClientError}
  ELSE IF stage = "extract" THEN {ReadError}
  ELSE IF stage = "transform" THEN {ResolveError}
  ELSE {WriteError}

\* C3 as stated: the failure the caller of ETLPipeline.run receives carries
\* the name of the stage that failed and its message.
C3_FailureNamesStage ==
  \A r \in Runs :
    kind[r] = "etl" =>
      /\ C3_Surfaced(r)
      /\ pc[r] = "Failed" =>
           /\ "stage" \in DOMAIN result[r].exception
           /\ "message" \in DOMAIN result[r].exception

\* C3 as amended: the caller receives the exception the failing stage raised,
\* unchanged: its type and message, without the name of the stage.
C3_FailureReraised ==
  \A r \in Runs :
    kind[r] = "etl" =>
      /\ C3_Surfaced(r)
      /\ pc[r] = "Failed" =>
           /\ result[r].exception \in RaisedBy(calls[r][Len(calls[r])])
           /\ DOMAIN result[r].exception = {"type", "message"}

\* C3 witness: transform raised and the caller got that exception
C3_Witness ==
  \E r \in Runs :
    /\ kind[r] = "etl"
    /\ pc[r] = "Failed"
    /\ calls[r] = SubSeq(Pipeline, 1, 3)
    /\ result[r] = reraise(ResolveError)

\* C4: a write that succeeds leaves at its location exactly the RecordSet it
\* wrote, whatever the location held before.
C4_WriteOverwrites ==
  [][\A r \in Runs :
       (pc[r] = "Loading" /\ pc'[r] = "Completed") =>
         store'[Location(output_path'[r])] = Contents(run_df[r])]_vars

\* C4 witness: two runs wrote different RecordSets to one location, and it
\* holds exactly one of them
C4_Witness ==
  \E r1, r2 \in Runs :
    /\ r1 # r2
    /\ pc[r1] = "Completed" /\ pc[r2] = "Completed"
    /\ Location(output_path[r1]) = Location(output_path[r2])
    /\ run_df[r1] # run_df[r2]
    /\ store[Location(output_path[r2])] = Contents(run_df[r2])

\* C5 as stated: two runs with the same bucket and prefix that started in the
\* same second have the same output location.
C5_SameStartSecondCollides ==
  \A r1, r2 \in Runs :
    ( /\ r1 # r2
      /\ output_prefix[r1] = output_prefix[r2]
      /\ output_path[r1] # NoPath /\ output_path[r2] # NoPath
      /\ SecondOf(started[r1]) = SecondOf(started[r2]) )
    => Location(output_path[r1]) = Location(output_path[r2])

\* C5 as amended: two runs with the same bucket and prefix whose timestamps
\* were taken in the same second have the same output location.
C5_SameCaptureSecondCollides ==
  \A r1, r2 \in Runs :
    ( /\ r1 # r2
      /\ output_prefix[r1] = output_prefix[r2]
      /\ output_path[r1] # NoPath /\ output_path[r2] # NoPath
      /\ SecondOf(load_now[r1]) = SecondOf(load_now[r2]) )
    => /\ Location(output_path[r1]) = Location(output_path[r2])
       /\ kind[r1] = kind[r2] => output_path[r1] = output_path[r2]

\* C5 witness: two runs took their timestamps at different instants of one
\* second
C5_Witness ==
  \E r1, r2 \in Runs :
    /\ r1 # r2
    /\ output_prefix[r1] = output_prefix[r2]
    /\ output_path[r1] # NoPath /\ output_path[r2] # NoPath
    /\ load_now[r1] # load_now[r2]
    /\ SecondOf(load_now[r1]) = SecondOf(load_now[r2])

\* C6: two runs with the same bucket and prefix share a location only if
\* their timestamps fall in the same second; when they do not, each location
\* holds its own run's output once both have completed; when they do, the
\* location holds the output of exactly one of them.
C6_CollideOnlyOnSameTimestamp ==
  \A r1, r2 \in Runs :
    ( /\ r1 # r2
      /\ output_prefix[r1] = output_prefix[r2]
      /\ output_path[r1] # NoPath /\ output_path[r2] # NoPath )
    => LET l1 == Location(output_path[r1])
           l2 == Location(output_path[r2])
           done == pc[r1] = "Completed" /\ pc[r2] = "Completed"
       IN  /\ l1 = l2 => SecondOf(load_now[r1]) = SecondOf(load_now[r2])
           /\ (done /\ SecondOf(load_now[r1]) # SecondOf(load_now[r2])) =>
                /\ store[l1] = Contents(run_df[r1])
                /\ store[l2] = Contents(run_df[r2])
           /\ (done /\ SecondOf(load_now[r1]) = SecondOf(load_now[r2])) =>
                store[l1] \in {Contents(run_df[r1]), Contents(run_df[r2])}

\* C6 witness: two completed runs with the same prefix, timestamps in
\* different seconds and different outputs
C6_Witness ==
  \E r1, r2 \in Runs :
    /\ r1 # r2
    /\ output_prefix[r1] = output_prefix[r2]
    /\ pc[r1] = "Completed" /\ pc[r2] = "Completed"
    /\ SecondOf(load_now[r1]) # SecondOf(load_now[r2])
    /\ run_df[r1] # run_df[r2]

\* ------------------------------------------------- claims on the transform
\* position of the first column, by column order, whose name satisfies pred
FirstPos(cols, pred(_)) ==
  CHOOSE i \in 1..Len(cols) : pred(cols[i]) /\ \A j \in 1..(i - 1) : ~pred(cols[j])

HasColumn(d, c) == \E i \in 1..Len(d.cols) : d.cols[i] = c

IsProcessedDateName(c) == c = sProcessedDate

\* the rows of a sequence at the indices in keep, in order
RECURSIVE RowsAt(_, _, _)
RowsAt(rows, keep, i) ==
  IF i > Len(rows) THEN <<>>
  ELSE IF i \in keep THEN <<rows[i]>> \o RowsAt(rows, keep, i + 1)
  ELSE RowsAt(rows, keep, i + 1)

\* what parsing text as a yyyy-MM-dd calendar date yields: its year, month
ParsedYear(v) ==
  IF v[1] = "str" /\ v[3] \in 1..12 /\ v[4] \in 1..DaysInMonth(v[2], v[3])
  THEN IntVal(v[2]) ELSE Null
ParsedMonth(v) ==
  IF v[1] = "str" /\ v[3] \in 1..12 /\ v[4] \in 1..DaysInMonth(v[2], v[3])
  THEN IntVal(v[3]) ELSE Null

\* C7: once the processed_date statement has run, the transform has not
\* failed there and every row has a processed_date: the capture date when the
\* source had no such column or a null in it, else the source's value verbatim.
C7_ProcessedDateFilled ==
  t_stage \in {"stamped", "failed_processed_date"} =>
    /\ t_stage = "stamped"
    /\ HasColumn(t_cur.df, sProcessedDate)
    /\ \A r \in 1..Len(t_cur.df.rows) :
         LET new == t_cur.df.rows[r][FirstPos(t_cur.df.cols, IsProcessedDateName)]
         IN  IF HasColumn(t_norm.df, sProcessedDate)
             THEN LET old == t_norm.df.rows[r][FirstPos(t_norm.df.cols, IsProcessedDateName)]
                  IN  IF IsNull(old) THEN new = strftime_date(clock) ELSE new = old
             ELSE new = strftime_date(clock)

\* C8: once the quality filter has run with an amount-bearing column present,
\* the surviving rows are exactly those whose value in the first amount-bearing
\* column was non-null before enrichment.
C8_FilterUsesPreEnrichmentNull ==
  (t_stage = "filtered" /\ amount_columns(t_norm.df) # <<>>) =>
    LET p == FirstPos(t_norm.df.cols, IsAmountName)
        keep == {r \in 1..Len(t_norm.df.rows) : ~IsNull(t_norm.df.rows[r][p])}
    IN  t_cur.df.rows = RowsAt(t_enr.df.rows, keep, 1)

\* C9: year and month exist after enrichment iff the normalized source has an
\* amount-bearing and a date-bearing column (enrichment does not raise on such
\* a source), and they are the year and month of the parsed value of the first
\* date-bearing column, null when that value does not parse.
C9_YearMonthOfParsedSource ==
  LET a == amount_columns(t_norm.df)
      d == date_columns(t_norm.df)
  IN  /\ t_stage \in {"failed_convert_dates", "failed_processed_date",
                      "failed_partition_columns"} => (a = <<>> \/ d = <<>>)
      /\ t_stage = "enriched" =>
           /\ HasColumn(t_cur.df, sYear) <=> (a # <<>> /\ d # <<>>)
           /\ HasColumn(t_cur.df, sMonth) <=> (a # <<>> /\ d # <<>>)
           /\ (a # <<>> /\ d # <<>>) =>
                \A r \in 1..Len(t_cur.df.rows) :
                  LET v == t_norm.df.rows[r][FirstPos(t_norm.df.cols, IsDateName)]
                      row == t_cur.df.rows[r]
                  IN  /\ row[Pos(t_cur.df, sYear)] = ParsedYear(v)
                      /\ row[Pos(t_cur.df, sMonth)] = ParsedMonth(v)

\* C10: a RecordSet that came out of normalization has pairwise-distinct
\* column names (colliding names make normalization fail instead).
C10_NormalizedNamesDistinct ==
  (t_stage # "extracted" /\ t_norm.ok) => ~HasDuplicateColumns(t_norm.df.cols)

\* C11: normalizing a normalized RecordSet again succeeds and gives the same
\* RecordSet: same column names, same column order, same row values.
C11_NormalizeIdempotent ==
  (t_stage # "extracted" /\ t_norm.ok) =>
    LET again == normalize(Frame(TRUE, t_norm.df, <<>>, <<>>))
    IN  /\ again.ok
        /\ again.df.cols = t_norm.df.cols
        /\ again.df.rows = t_norm.df.rows

\* a name lowercased, then every space and every hyphen made an underscore
Underscored(c) ==
  [i \in 1..Len(c) |-> IF LowerChar(c[i]) \in {" ", "-"} THEN "_" ELSE LowerChar(c[i])]

\* C12: after normalization the i-th column is the i-th column of the source
\* under its lowercased name with spaces and hyphens made underscores, and
\* the rows are unchanged.
C12_NormalizedNames ==
  (t_stage # "extracted" /\ t_norm.ok) =>
    /\ Len(t_norm.df.cols) = Len(t_source.cols)
    /\ \A i \in 1..Len(t_source.cols) : t_norm.df.cols[i] = Underscored(t_source.cols[i])
    /\ t_norm.df.rows = t_source.rows

\* C12 witness: the Glue rename loop normalized a source that has a name with
\* capitals and a hyphen, a name already normal, and rows
C12_Witness ==
  /\ t_stage = "normalized"
  /\ t_impl = "glue"
  /\ t_source.cols = <<hValueDate, sProcessedDate>>
  /\ t_norm.df.cols # t_source.cols
  /\ Len(t_source.rows) >= 1

\* the cells <<row, column>> of a frame that lie in a date-bearing column and
\* hold text that is no calendar date
InvalidDateCells(d) ==
  {c \in (1..Len(d.rows)) \X (1..Len(d.cols)) :
     /\ IsDateName(d.cols[c[2]])
     /\ d.rows[c[1]][c[2]][1] = "str"
     /\ ~ValidDate(d.rows[c[1]][c[2]][2], d.rows[c[1]][c[2]][3], d.rows[c[1]][c[2]][4])}

\* C13: on a source with text that is no calendar date in a date-bearing
\* column, enrichment does not raise, keeps every row, and leaves null in
\* each such cell.
C13_InvalidDateBecomesNull ==
  ( /\ t_stage \in {"enriched", "failed_convert_dates", "failed_processed_date",
                    "failed_partition_columns"}
    /\ InvalidDateCells(t_norm.df) # {} )
  => /\ t_stage = "enriched"
     /\ Len(t_enr.df.rows) = Len(t_norm.df.rows)
     /\ \A c \in InvalidDateCells(t_norm.df) : IsNull(t_enr.df.rows[c[1]][c[2]])

\* the indices at which a row occurs for the first time
FirstOccurrences(rows) ==
  {i \in 1..Len(rows) : \A j \in 1..(i - 1) : rows[j] # rows[i]}

\* C14 as stated: deduplication leaves the first occurrence of every distinct
\* row, in the order these had before it.
C14_DedupKeepsFirstInOrder ==
  [][(t_stage = "filtered" /\ t_stage' = "transformed") =>
       t_cur'.df.rows = RowsAt(t_cur.df.rows, FirstOccurrences(t_cur.df.rows), 1)]_vars

\* C14 as amended: after deduplication no two rows are equal in every column
\* (null equal to null) and every distinct row of the filtered input appears
\* exactly once; the order of the survivors is not fixed.
C14_DedupDistinctRows ==
  [][(t_stage = "filtered" /\ t_stage' = "transformed") =>
       /\ \A i, j \in 1..Len(t_cur'.df.rows) :
            t_cur'.df.rows[i] = t_cur'.df.rows[j] => i = j
       /\ RowSet(t_cur'.df.rows) = RowSet(t_cur.df.rows)
       /\ t_cur'.df.cols = t_cur.df.cols]_vars

\* C14 witness: two rows equal in every column, a null among them, passed
\* the filter and came out as one
C14_Witness ==
  /\ t_stage = "transformed"
  /\ Len(t_enr.df.rows) = 2
  /\ t_enr.df.rows[1] = t_enr.df.rows[2]
  /\ \E i \in 1..Len(t_enr.df.cols) : IsNull(t_enr.df.rows[1][i])
  /\ t_cur.df.rows = <<t_enr.df.rows[1]>>

\* C15: enrichment leaves the number of rows as the extractor gave it, and
\* the quality filter and the deduplication never add a row.
C15_RowCounts ==
  /\ t_stage \in {"dated", "stamped"} => Len(t_cur.df.rows) = Len(t_source.rows)
  /\ t_stage \in {"enriched", "filtered", "transformed"} =>
       /\ Len(t_enr.df.rows) = Len(t_source.rows)
       /\ Len(t_cur.df.rows) <= Len(t_enr.df.rows)

\* C15 witness: a source of two rows, one of them with text that is no date
\* in its date column and a null amount, was enriched to two rows and came
\* out of filter and deduplication with fewer
C15_Witness ==
  /\ t_stage = "transformed"
  /\ t_source.cols = <<hDate, hAmount, sProcessedDate>>
  /\ Len(t_source.rows) = 2
  /\ t_source.rows[1] = <<Str(2024, 13, 40), Null, Null>>
  /\ Len(t_enr.df.rows) = 2
  /\ Len(t_cur.df.rows) < 2

\* C16 as stated: every output path has the one shape
\* <bucket>/<output_prefix>/date=<timestamp>/, so two runs of either
\* implementation with the same bucket, prefix and timestamp have the same path.
C16_OnePathShape ==
  /\ \A r \in Runs : output_path[r] # NoPath => output_path[r].trailing = "/"
  /\ \A r1, r2 \in Runs :
       ( /\ output_path[r1] # NoPath /\ output_path[r2] # NoPath
         /\ output_prefix[r1] = output_prefix[r2]
         /\ strftime_timestamp(load_now[r1]) = strftime_timestamp(load_now[r2]) )
       => output_path[r1] = output_path[r2]

\* C16 as amended: the output path is made of the destination bucket, the
\* run's output prefix and the timestamp of the capture second, and nothing
\* else; both implementations name the same location for the same three, but
\* ETLPipeline writes it s3a://.../date=<ts> and the Glue script
\* s3://.../date=<ts>/.
C16_PathOfBucketPrefixTimestamp ==
  /\ \A r \in Runs :
       output_path[r] # NoPath =>
         /\ output_path[r].bucket = DestinationBucket
         /\ output_path[r].prefix = output_prefix[r]
         /\ output_path[r].timestamp = strftime_timestamp(load_now[r])
         /\ output_path[r].scheme = (IF kind[r] = "etl" THEN "s3a" ELSE "s3")
         /\ output_path[r].trailing = (IF kind[r] = "etl" THEN "" ELSE "/")
  /\ \A r1, r2 \in Runs :
       ( /\ output_path[r1] # NoPath /\ output_path[r2] # NoPath
         /\ output_prefix[r1] = output_prefix[r2]
         /\ strftime_timestamp(load_now[r1]) = strftime_timestamp(load_now[r2]) )
       => Location(output_path[r1]) = Location(output_path[r2])

\* C16 witness: an ETLPipeline run and a Glue run with the default prefix and
\* the same timestamp, and a run with the other prefix
C16_Witness ==
  \E r1, r2 \in Runs :
    /\ kind[r1] = "etl" /\ kind[r2] = "glue"
    /\ output_path[r1] # NoPath /\ output_path[r2] # NoPath
    /\ output_prefix[r1] = default_output_prefix(Unset)
    /\ output_prefix[r2] = default_output_prefix(Unset)
    /\ strftime_timestamp(load_now[r1]) = strftime_timestamp(load_now[r2])
    /\ load_now[r1] > 0
    /\ Location(output_path[r1]) = Location(output_path[r2])
    /\ output_path[r1] # output_path[r2]

\* C17 as stated: a load that succeeds returns the output location and the
\* number of rows written, which is the number of rows of the RecordSet it
\* was given.
C17_ReturnsPathAndCount ==
  [][\A r \in Runs :
       (kind[r] = "etl" /\ pc[r] = "Loading" /\ pc'[r] = "Completed") =>
         /\ result'[r].output_path = output_path'[r]
         /\ "record_count" \in DOMAIN result'[r]
         /\ result'[r].record_count = Len(run_df[r].rows)]_vars

\* C17 as amended: a load that succeeds returns the output location it wrote
\* the RecordSet to, and nothing else; what it wrote has the rows of the
\* RecordSet it was given.
C17_ReturnsPathOnly ==
  [][\A r \in Runs :
       (kind[r] = "etl" /\ pc[r] = "Loading" /\ pc'[r] = "Completed") =>
         /\ result'[r].status = "returned"
         /\ result'[r].output_path = output_path'[r]
         /\ output_path'[r] = s3_output_path(DestinationBucket, output_prefix[r], clock)
         /\ DOMAIN result'[r] = {"status", "output_path", "exception"}
         /\ Len(store'[Location(output_path'[r])].rows) = Len(run_df[r].rows)]_vars

\* C17 witness: an ETLPipeline run wrote a RecordSet with a row and returned
C17_Witness ==
  \E r \in Runs :
    /\ kind[r] = "etl"
    /\ pc[r] = "Completed"
    /\ Len(run_df[r].rows) >= 1
    /\ result[r] = returned(output_path[r])
    /\ store[Location(output_path[r])] = Contents(run_df[r])

\* ------------------------------------------------ claims on lambda_handler
\* what the claims call an eligible record
Eligible(record) ==
  /\ record.eventSource = "aws:s3"
  /\ record.bucket # Unset
  /\ record.key # <<>>
  /\ \/ endswith(lower(record.key), sCsv)
     \/ endswith(lower(record.key), sJson)

\* the indices below n of the eligible records, in event order
RECURSIVE EligibleBelow(_)
EligibleBelow(n) ==
  IF n <= 1 THEN <<>>
  ELSE IF Eligible(records[n - 1]) THEN Append(EligibleBelow(n - 1), n - 1)
  ELSE EligibleBelow(n - 1)

\* C18 as stated: every input the handler processed has exactly one result
\* record, with source, destination and status, and error when it failed.
C18_ResultHasDestination ==
  (l_pc = "returned" /\ response.statusCode = 200) =>
    /\ Len(response.body.results) = Len(attempts)
    /\ \A i \in 1..Len(attempts) :
         LET entry == response.body.results[i]
         IN  /\ {"source", "destination", "status"} \subseteq DOMAIN entry
             /\ entry.status = "error" => "error" \in DOMAIN entry

\* C18 as amended: every input the handler processed has exactly one result
\* record: source, glue_job_name, job_run_id and status 'triggered' when the
\* job was started, source, status 'error' and error when it was not; no
\* record has a destination.
C18_ResultRecords ==
  (l_pc = "returned" /\ response.statusCode = 200) =>
    /\ Len(response.body.results) = Len(attempts)
    /\ \A i \in 1..Len(attempts) :
         LET entry == response.body.results[i]
             record == records[attempts[i]]
         IN  /\ entry.source = source_uri(record.bucket, record.key)
             /\ \/ /\ entry.status = "triggered"
                   /\ DOMAIN entry = {"source", "glue_job_name", "job_run_id", "status"}
                \/ /\ entry.status = "error"
                   /\ DOMAIN entry = {"source", "status", "error"}

\* C18 witness: the handler returned a record for an input it triggered and
\* one for an input that failed
C18_Witness ==
  /\ l_pc = "returned"
  /\ response.statusCode = 200
  /\ \E i, j \in 1..Len(response.body.results) :
       /\ response.body.results[i].status = "triggered"
       /\ response.body.results[j].status = "error"

\* the processed_date values the sources of the runs carry themselves
SourceProcessedDates ==
  UNION {{src.rows[i][Pos(src, sProcessedDate)] : i \in 1..Len(src.rows)} :
           src \in {d \in RunSources : Resolves(d, sProcessedDate)}}
  \ {Null}

\* C19: in a completed run every processed_date that was filled by default
\* is the calendar date of the run's partition timestamp, wherever the clock
\* advanced between the stages.
C19_ClockSampledOnce ==
  \A r \in Runs :
    pc[r] = "Completed" =>
      \A i \in 1..Len(run_df[r].rows) :
        LET v == run_df[r].rows[i][Pos(run_df[r], sProcessedDate)]
        IN  v \in SourceProcessedDates \/ v = strftime_date(load_now[r])

\* C20 as stated: for any event the handler attempts start_job_run once for
\* each eligible record, in event order, and for no other record; it attempts
\* none when Records is empty or GLUE_JOB_NAME or DESTINATION_BUCKET is unset;
\* every attempt, failed or not, adds one result entry and the loop goes on.
C20_AttemptsEveryEligible ==
  l_pc = "returned" =>
    /\ Len(results) = Len(attempts)
    /\ IF \/ records = <<>>
          \/ env.GLUE_JOB_NAME = Unset
          \/ env.DESTINATION_BUCKET = Unset
       THEN attempts = <<>>
       ELSE attempts = EligibleBelow(Len(records) + 1)

\* C20 as amended: the same, once the Glue client has been created; when it
\* cannot be created the handler attempts nothing and returns status 500.
C20_AttemptsEligibleOnce ==
  /\ l_pc \in {"start", "returned"} /\ response.statusCode # 200 =>
       attempts = <<>> /\ results = <<>>
  /\ l_pc = "returned" =>
       response.statusCode = 200
         <=> (records # <<>> /\ env.GLUE_JOB_NAME # Unset
              /\ env.DESTINATION_BUCKET # Unset /\ l_i = Len(records) + 1)
  /\ l_pc = "loop" \/ (l_pc = "returned" /\ response.statusCode = 200) =>
       /\ records # <<>> /\ env.GLUE_JOB_NAME # Unset /\ env.DESTINATION_BUCKET # Unset
       /\ attempts = EligibleBelow(l_i)
       /\ Len(results) = Len(attempts)
       /\ \A k \in 1..Len(results) : results[k].status \in {"triggered", "error"}

\* C20 witness: an event of three records, the first not eligible, the
\* second's attempt failed, the third's succeeded
C20_Witness ==
  /\ l_pc = "returned"
  /\ response.statusCode = 200
  /\ Len(records) = 3
  /\ ~Eligible(records[1])
  /\ attempts = <<2, 3>>
  /\ Len(results) = 2
  /\ results[1].status = "error"
  /\ results[2].status = "triggered"

\* what the implementation not in hand makes of the same source on the same
\* day, up to the order of its rows
other_transform(df, today) ==
  IF t_impl = "etl" THEN glue_transform_df(df, today) ELSE transform_df(df, today)

\* C21: on every extracted RecordSet the two implementations agree: when one
\* transform raises so does the other, and when one returns a RecordSet the
\* other returns the same column names in the same order and the same rows.
C21_TransformsEquivalent ==
  LET other == other_transform(t_source, strftime_date(clock))
  IN  /\ t_stage \in {"failed_normalize", "failed_convert_dates", "failed_processed_date",
                      "failed_partition_columns", "failed_quality_filter"} => ~other.ok
      /\ t_stage = "transformed" =>
           /\ other.ok
           /\ other.df.cols = t_cur.df.cols
           /\ RowSet(other.df.rows) = RowSet(t_cur.df.rows)
====
